---- MODULE Spec2Model ----
(***************************************************************************)
(* Model of casino_simulator (src/casino_simulator.py) and of the callers  *)
(* that run it: the simulator seeds numpy's process-global generator,      *)
(* draws three arrays from it and reduces them to one summary record.      *)
(*                                                                         *)
(* Arithmetic.  The source computes in binary floating point; the model    *)
(* computes the same formulas exactly, in fixed point:                     *)
(*   house_edge  is a number of 1/HEDen   (0.01  is 10),                   *)
(*   bonus rates and loseback are numbers of 1/RateDen (0.08 is 8),        *)
(*   deposits and wagers are whole currency units,                         *)
(*   every loss, bonus and profit is a number of 1/Unit currency units,    *)
(*   a standard-normal variate is a whole number of standard deviations.   *)
(* Rounding of the floating-point operations is not modelled.              *)
(*                                                                         *)
(* Generator.  numpy's Mersenne Twister is outside the repository.  It is  *)
(* modelled by what the source relies on: a state held in one process-wide *)
(* variable, seed(42) setting that state to a fixed value, and every       *)
(* sample being a function of the state that also advances it.  Which      *)
(* numbers the generator yields is not known to the source, so the         *)
(* generator is one of a family, chosen in Init and fixed afterwards.      *)
(***************************************************************************)
EXTENDS Integers, Sequences, FiniteSets, TLC

VARIABLES rng, generator, pc, params, frame, outcome, saved

vars == <<rng, generator, pc, params, frame, outcome, saved>>

(***************************************************************************)
(* Bounds and units                                                        *)
(***************************************************************************)
MaxPlayers == 2
RngStates == 16

HEDen == 1000
RateDen == 100
Unit == HEDen * RateDen * 2

Threads == {1, 2}

(***************************************************************************)
(* The generator                                                           *)
(***************************************************************************)
Generators == {1, 3, 7}

SeedValue == 42

\* Variant: the call does not reseed, the generator goes on where it was.
SeedStateKept(seed) == rng

SeedState(seed) == seed % RngStates

NextState(g, s) == (5 * s + g) % RngStates

RECURSIVE Stream(_, _, _)
Stream(g, s, k) ==
    IF k = 0 THEN << >>
    ELSE <<NextState(g, s)>> \o Stream(g, NextState(g, s), k - 1)

RECURSIVE StateAfter(_, _, _)
StateAfter(g, s, k) ==
    IF k = 0 THEN s ELSE StateAfter(g, NextState(g, s), k - 1)

\* One log-normal sample: always positive.
LogNormal(u) == 1 + (u % 3)

\* One np.random.choice sample: inverse of the cumulative p = [0.5, 0.8, 1].
Choice(u) ==
    IF 10 * u < 5 * RngStates THEN 10
    ELSE IF 10 * u < 8 * RngStates THEN 100
    ELSE 1000

\* One standard-normal variate, in standard deviations.
Gauss(u) == (u % 6) - 3

\* np.random.normal(loc, scale): loc + scale * variate.
Normal(loc, scale, u) == loc + scale * Gauss(u)

(***************************************************************************)
(* Elementwise arithmetic of the simulator                                 *)
(***************************************************************************)
Indices(n) == 1 .. n

ByEdge(w, house_edge) == w * house_edge * (Unit \div HEDen)

ByRate(x, rate) == (x * rate) \div RateDen

RECURSIVE SumSeq(_)
SumSeq(s) == IF Len(s) = 0 THEN 0 ELSE Head(s) + SumSeq(Tail(s))

WagerAmounts(deposit_amounts, wager_multipliers) ==
    [i \in DOMAIN deposit_amounts |-> deposit_amounts[i] * wager_multipliers[i]]

\* Variant: the default edge 0.01 written for the parameter.
ExpectedLossesAtDefault(wager_amounts, house_edge) ==
    [i \in DOMAIN wager_amounts |-> ByEdge(wager_amounts[i], 10)]

ExpectedLosses(wager_amounts, house_edge) ==
    [i \in DOMAIN wager_amounts |-> ByEdge(wager_amounts[i], house_edge)]

RawLosses(expected_losses, us) ==
    [i \in DOMAIN expected_losses |->
        Normal(expected_losses[i], expected_losses[i] \div 2, us[i])]

\* Variant: np.minimum written for np.maximum.
MaximumSwapped(x, y) == IF x < y THEN x ELSE y

Maximum(x, y) == IF x < y THEN y ELSE x

ClampLosses(raw_losses) ==
    [i \in DOMAIN raw_losses |-> Maximum(raw_losses[i], 0)]

BonusResults(wager_amounts, house_edge, bonuses) ==
    [name \in DOMAIN bonuses |->
        [i \in DOMAIN wager_amounts |->
            ByRate(ByEdge(wager_amounts[i], house_edge), bonuses[name])]]

RECURSIVE SumOver(_, _, _)
SumOver(bonus_results, names, i) ==
    IF names = {} THEN 0
    ELSE LET name == CHOOSE x \in names : TRUE
         IN  bonus_results[name][i] + SumOver(bonus_results, names \ {name}, i)

\* sum(bonus_results.values()), for player i.
FixedBonus(bonus_results, i) == SumOver(bonus_results, DOMAIN bonus_results, i)

LosebackBonus(actual_losses, loseback) ==
    [i \in DOMAIN actual_losses |-> ByRate(actual_losses[i], loseback)]

\* Variant: the loseback refund left out of the total.
TotalBonusFixedOnly(bonus_results, loseback_bonus) ==
    [i \in DOMAIN loseback_bonus |-> FixedBonus(bonus_results, i)]

TotalBonus(bonus_results, loseback_bonus) ==
    [i \in DOMAIN loseback_bonus |-> FixedBonus(bonus_results, i) + loseback_bonus[i]]

\* Variant: the operands of the subtraction exchanged.
ActualProfitReversed(actual_losses, total_bonus) ==
    [i \in DOMAIN actual_losses |-> total_bonus[i] - actual_losses[i]]

ActualProfit(actual_losses, total_bonus) ==
    [i \in DOMAIN actual_losses |-> actual_losses[i] - total_bonus[i]]

ExpectedProfit(expected_losses, bonus_results) ==
    [i \in DOMAIN expected_losses |-> expected_losses[i] - FixedBonus(bonus_results, i)]

\* Variant: the masked values summed instead of the mask.
ProfitablePlayersSummed(actual_profit) ==
    SumSeq([i \in DOMAIN actual_profit |->
               IF actual_profit[i] < 0 THEN actual_profit[i] ELSE 0])

\* Variant: <= written for <.
ProfitablePlayersOrEven(actual_profit) ==
    Cardinality({i \in DOMAIN actual_profit : actual_profit[i] <= 0})

ProfitablePlayers(actual_profit) ==
    Cardinality({i \in DOMAIN actual_profit : actual_profit[i] < 0})

LosingPlayers(num_players, profitable_players) == num_players - profitable_players

\* A float quotient: 0/0 is nan (numpy warns and goes on), otherwise num/den.
Quotient(num, den) ==
    IF den = 0 THEN [nan |-> TRUE, num |-> 0, den |-> 0]
    ELSE [nan |-> FALSE, num |-> num, den |-> den]

\* 1 - num/den.
OneMinus(q) ==
    IF q.nan THEN q ELSE [nan |-> FALSE, num |-> q.den - q.num, den |-> q.den]

(***************************************************************************)
(* The body of casino_simulator after the draws                            *)
(***************************************************************************)
NoResults ==
    [TotalPlayers |-> 0, TotalWager |-> 0, TotalExpectedLoss |-> 0,
     TotalActualLoss |-> 0, TotalBonusesPaid |-> 0, TotalExpectedProfit |-> 0,
     TotalActualProfit |-> 0,
     ExpectedRTP |-> Quotient(0, 0), ActualRTP |-> Quotient(0, 0),
     ProfitablePlayers |-> 0, LosingPlayers |-> 0,
     ProfitablePlayerPercentage |-> Quotient(0, 0)]

EmptyFrame ==
    [deposit_amounts |-> << >>, wager_multipliers |-> << >>,
     wager_amounts |-> << >>, expected_losses |-> << >>,
     raw_losses |-> << >>, actual_losses |-> << >>,
     loseback_bonus |-> << >>, total_bonus |-> << >>,
     actual_profit |-> << >>, expected_profit |-> << >>]

\* The local arrays, lines 19-27; us are the generator's values for line 21.
Locals(p, deposit_amounts, wager_multipliers, us) ==
    LET wager_amounts == WagerAmounts(deposit_amounts, wager_multipliers)
        expected_losses == ExpectedLosses(wager_amounts, p.house_edge)
        raw_losses == RawLosses(expected_losses, us)
        actual_losses == ClampLosses(raw_losses)
        bonus_results == BonusResults(wager_amounts, p.house_edge, p.bonuses)
        loseback_bonus == LosebackBonus(actual_losses, p.loseback)
        total_bonus == TotalBonus(bonus_results, loseback_bonus)
    IN  [deposit_amounts |-> deposit_amounts,
         wager_multipliers |-> wager_multipliers,
         wager_amounts |-> wager_amounts,
         expected_losses |-> expected_losses,
         raw_losses |-> raw_losses,
         actual_losses |-> actual_losses,
         loseback_bonus |-> loseback_bonus,
         total_bonus |-> total_bonus,
         actual_profit |-> ActualProfit(actual_losses, total_bonus),
         expected_profit |-> ExpectedProfit(expected_losses, bonus_results)]

ActualRtp(actual_profit, wager_amounts) ==
    OneMinus(Quotient(SumSeq(actual_profit), SumSeq(wager_amounts) * Unit))

ExpectedRtp(house_edge) == OneMinus(Quotient(house_edge, HEDen))

Percentage(profitable_players, num_players) ==
    LET q == Quotient(profitable_players, num_players)
    IN  IF q.nan THEN q ELSE [q EXCEPT !.num = 100 * q.num]

\* The results dictionary, lines 28-45.
Results(p, f) ==
    LET profitable_players == ProfitablePlayers(f.actual_profit)
        losing_players == LosingPlayers(p.num_players, profitable_players)
    IN  [TotalPlayers |-> p.num_players,
         TotalWager |-> SumSeq(f.wager_amounts),
         TotalExpectedLoss |-> SumSeq(f.expected_losses),
         TotalActualLoss |-> SumSeq(f.actual_losses),
         TotalBonusesPaid |-> SumSeq(f.total_bonus),
         TotalExpectedProfit |-> SumSeq(f.expected_profit),
         TotalActualProfit |-> SumSeq(f.actual_profit),
         ExpectedRTP |-> ExpectedRtp(p.house_edge),
         ActualRTP |-> ActualRtp(f.actual_profit, f.wager_amounts),
         ProfitablePlayers |-> profitable_players,
         LosingPlayers |-> losing_players,
         ProfitablePlayerPercentage |-> Percentage(profitable_players, p.num_players)]

(***************************************************************************)
(* Parameters                                                              *)
(***************************************************************************)
BonusNames == {"Weekly Bonus", "Monthly Bonus", "Rakeback"}

NoBonuses == [name \in {} |-> 0]

DefaultBonuses ==
    [name \in BonusNames |->
        IF name = "Weekly Bonus" THEN 8
        ELSE IF name = "Monthly Bonus" THEN 5 ELSE 10]

ZeroBonuses == [name \in BonusNames |-> 0]

RakebackOnly == [name \in {"Rakeback"} |-> 20]

\* What any caller of the function may pass.
Params ==
    [num_players : (-1) .. MaxPlayers,
     house_edge : {1, 10},
     bonuses : {NoBonuses, ZeroBonuses, DefaultBonuses, RakebackOnly},
     loseback : {0, 2, RateDen}]

\* What the page's widgets can pass, lines 52-60.
SessionParams ==
    [num_players : 1 .. MaxPlayers,
     house_edge : {10},
     bonuses : {ZeroBonuses, DefaultBonuses},
     loseback : {0, 2}]

NoParams == [num_players |-> 0, house_edge |-> 0, bonuses |-> NoBonuses, loseback |-> 0]

NoOutcome == [kind |-> "none", results |-> NoResults]

NotSaved == [kind |-> "none", params |-> NoParams, results |-> NoResults,
             wager_amounts |-> << >>]

(***************************************************************************)
(* State machine                                                           *)
(***************************************************************************)
Init ==
    /\ rng \in 0 .. (RngStates - 1)
    /\ generator \in Generators
    /\ pc = [t \in Threads |-> "idle"]
    /\ params = [t \in Threads |-> NoParams]
    /\ frame = [t \in Threads |-> EmptyFrame]
    /\ outcome = [t \in Threads |-> NoOutcome]
    /\ saved = NotSaved

\* Entry of casino_simulator: the arguments are bound.
Enter(t, p) ==
    /\ pc[t] = "idle"
    /\ pc' = [pc EXCEPT ![t] = "seed"]
    /\ params' = [params EXCEPT ![t] = p]
    /\ UNCHANGED <<rng, generator, frame, outcome, saved>>

\* A call made while no other call is in progress.
Call(t) ==
    /\ \A u \in Threads : pc[u] = "idle"
    /\ \E p \in Params : Enter(t, p)

\* The button handler of a session, line 65; sessions run in threads of
\* one process.
RunSimulation(t) == \E p \in SessionParams : Enter(t, p)

\* Line 16: np.random.seed(42).
Seed(t) ==
    /\ pc[t] = "seed"
    /\ rng' = SeedState(SeedValue)
    /\ pc' = [pc EXCEPT ![t] = "deposits"]
    /\ UNCHANGED <<generator, params, frame, outcome, saved>>

\* Line 17: np.random.lognormal(size=num_players); a negative size raises
\* ValueError out of the function.
DrawDeposits(t) ==
    /\ pc[t] = "deposits"
    /\ IF params[t].num_players < 0
       THEN /\ pc' = [pc EXCEPT ![t] = "raised"]
            /\ outcome' = [outcome EXCEPT ![t] = [kind |-> "ValueError", results |-> NoResults]]
            /\ UNCHANGED <<rng, frame>>
       ELSE LET n == params[t].num_players
                us == Stream(generator, rng, n)
            IN  /\ frame' = [frame EXCEPT ![t].deposit_amounts =
                                [i \in Indices(n) |-> LogNormal(us[i])]]
                /\ rng' = StateAfter(generator, rng, n)
                /\ pc' = [pc EXCEPT ![t] = "multipliers"]
                /\ UNCHANGED outcome
    /\ UNCHANGED <<generator, params, saved>>

\* Line 18: np.random.choice([10, 100, 1000], size=num_players, p=...).
DrawMultipliers(t) ==
    /\ pc[t] = "multipliers"
    /\ LET n == params[t].num_players
           us == Stream(generator, rng, n)
       IN  /\ frame' = [frame EXCEPT ![t].wager_multipliers =
                            [i \in Indices(n) |-> Choice(us[i])]]
           /\ rng' = StateAfter(generator, rng, n)
    /\ pc' = [pc EXCEPT ![t] = "losses"]
    /\ UNCHANGED <<generator, params, outcome, saved>>

\* Line 21: np.random.normal(...), then lines 19-46, which touch nothing
\* but locals, and the return of the one-row frame.
DrawLosses(t) ==
    /\ pc[t] = "losses"
    /\ LET n == params[t].num_players
           us == Stream(generator, rng, n)
           f == Locals(params[t], frame[t].deposit_amounts,
                       frame[t].wager_multipliers, us)
       IN  /\ frame' = [frame EXCEPT ![t] = f]
           /\ outcome' = [outcome EXCEPT ![t] =
                            [kind |-> "DataFrame", results |-> Results(params[t], f)]]
           /\ rng' = StateAfter(generator, rng, n)
    /\ pc' = [pc EXCEPT ![t] = "returned"]
    /\ UNCHANGED <<generator, params, saved>>

\* The caller keeps the first outcome it chooses to keep, to compare later
\* calls with.
Remember(t) ==
    /\ pc[t] \in {"returned", "raised"}
    /\ saved.kind = "none"
    /\ saved' = [kind |-> outcome[t].kind, params |-> params[t],
                 results |-> outcome[t].results,
                 wager_amounts |-> frame[t].wager_amounts]
    /\ UNCHANGED <<rng, generator, pc, params, frame, outcome>>

\* The caller is done with the outcome; the locals are gone.
Finish(t) ==
    /\ pc[t] \in {"returned", "raised"}
    /\ pc' = [pc EXCEPT ![t] = "idle"]
    /\ params' = [params EXCEPT ![t] = NoParams]
    /\ frame' = [frame EXCEPT ![t] = EmptyFrame]
    /\ outcome' = [outcome EXCEPT ![t] = NoOutcome]
    /\ UNCHANGED <<rng, generator, saved>>

Step(t) ==
    \/ Seed(t)
    \/ DrawDeposits(t)
    \/ DrawMultipliers(t)
    \/ DrawLosses(t)
    \/ Finish(t)

\* One call at a time: a script, a test, one session.
Next == \E t \in Threads : Call(t) \/ Step(t) \/ Remember(t)

Spec == Init /\ [][Next]_vars

\* Sessions of the page served by one process.
NextSessions == \E t \in Threads : RunSimulation(t) \/ Step(t)

SpecSessions == Init /\ [][NextSessions]_vars

\* What a call with parameters p returns when nothing else touches the
\* generator: lines 16-46 run back to back.
RunAlone(g, p) ==
    IF p.num_players < 0 THEN [kind |-> "ValueError", results |-> NoResults]
    ELSE LET n == p.num_players
             s0 == SeedState(SeedValue)
             s1 == StateAfter(g, s0, n)
             s2 == StateAfter(g, s1, n)
             u0 == Stream(g, s0, n)
             u1 == Stream(g, s1, n)
             deposit_amounts == [i \in Indices(n) |-> LogNormal(u0[i])]
             wager_multipliers == [i \in Indices(n) |-> Choice(u1[i])]
             f == Locals(p, deposit_amounts, wager_multipliers, Stream(g, s2, n))
         IN  [kind |-> "DataFrame", results |-> Results(p, f)]

TypeOK ==
    /\ rng \in 0 .. (RngStates - 1)
    /\ generator \in Generators
    /\ pc \in [Threads -> {"idle", "seed", "deposits", "multipliers", "losses",
                           "returned", "raised"}]

(***************************************************************************)
(* Properties                                                              *)
(***************************************************************************)
Returned(t) == pc[t] = "returned"

AllRatesZero(p) == \A name \in DOMAIN p.bonuses : p.bonuses[name] = 0

\* The sum of the configured rates.
RateSum(bonuses) == SumOver([name \in DOMAIN bonuses |-> <<bonuses[name]>>], DOMAIN bonuses, 1)

\* C1: a record returned for player_count >= 1 has ProfitablePlayers +
\* LosingPlayers = TotalPlayers = player_count and 0 <= ProfitablePlayers <=
\* TotalPlayers (0 or 1 when player_count is 1).
C1_PlayersPartition ==
    \A t \in Threads :
        (Returned(t) /\ params[t].num_players >= 1) =>
            LET r == outcome[t].results
            IN  /\ r.TotalPlayers = params[t].num_players
                /\ r.ProfitablePlayers + r.LosingPlayers = r.TotalPlayers
                /\ r.ProfitablePlayers >= 0
                /\ r.ProfitablePlayers <= r.TotalPlayers
                /\ (params[t].num_players = 1 => r.ProfitablePlayers \in {0, 1})

C1_Witness ==
    \E t \in Threads :
        /\ Returned(t)
        /\ params[t].num_players >= 2
        /\ outcome[t].results.ProfitablePlayers >= 1
        /\ outcome[t].results.LosingPlayers >= 1

\* C2: a call that returns (or raises) gives exactly the outcome that an
\* earlier call with identical parameters gave, whatever calls were made
\* before it or between the two.
C2_Deterministic ==
    \A t \in Threads :
        (pc[t] \in {"returned", "raised"} /\ saved.kind # "none"
            /\ saved.params = params[t]) =>
                /\ outcome[t].kind = saved.kind
                /\ outcome[t].results = saved.results

C2_Witness ==
    \E t \in Threads :
        /\ Returned(t)
        /\ saved.kind = "DataFrame"
        /\ saved.params = params[t]
        /\ params[t].num_players >= 2
        /\ outcome[t].results = saved.results

\* C3: a call with player_count <= 0 never changes the generator's state
\* and never goes on to simulate or to return a record.
C3_RejectedBeforeSeeding ==
    [][\A t \in Threads :
          (pc[t] # "idle" /\ params[t].num_players <= 0) =>
              /\ rng' = rng
              /\ pc'[t] \notin {"multipliers", "losses", "returned"}]_vars

\* C4: a session's call returns what the same call returns when it runs
\* alone, however the steps of the sessions interleave.
C4_AsWhenAlone ==
    \A t \in Threads :
        pc[t] \in {"returned", "raised"} =>
            outcome[t] = RunAlone(generator, params[t])

\* C5: no record is returned when the total wager is zero; no returned
\* record holds a ratio that came from a division by zero.
C5_NoUndefinedRatio ==
    \A t \in Threads :
        Returned(t) =>
            /\ outcome[t].results.TotalWager # 0
            /\ ~ outcome[t].results.ActualRTP.nan
            /\ ~ outcome[t].results.ProfitablePlayerPercentage.nan

\* C6: with every bonus rate 0 (or no bonus configured) and loseback 0, a
\* record returned for player_count >= 1 has TotalBonusesPaid = 0 and
\* TotalActualProfit = TotalActualLoss.
C6_NoBonusNoLoseback ==
    \A t \in Threads :
        (Returned(t) /\ params[t].num_players >= 1
            /\ AllRatesZero(params[t]) /\ params[t].loseback = 0) =>
                /\ outcome[t].results.TotalBonusesPaid = 0
                /\ outcome[t].results.TotalActualProfit =
                       outcome[t].results.TotalActualLoss

C6_Witness ==
    \E t \in Threads :
        /\ Returned(t)
        /\ params[t].num_players >= 1
        /\ params[t].bonuses = NoBonuses
        /\ params[t].loseback = 0
        /\ outcome[t].results.TotalActualLoss > 0
        /\ outcome[t].results.TotalActualLoss # outcome[t].results.TotalExpectedLoss

\* C7: every player's actual_loss is the raw sample floored at zero, hence
\* >= 0, and the loseback, the total bonus, the profit, TotalActualLoss and
\* ActualRTP are those of the floored value.
C7_ClampedBeforeUse ==
    \A t \in Threads :
        Returned(t) =>
            LET f == frame[t]
                p == params[t]
                r == outcome[t].results
                floored == [i \in DOMAIN f.raw_losses |->
                               IF f.raw_losses[i] < 0 THEN 0 ELSE f.raw_losses[i]]
                fixed == [i \in DOMAIN f.raw_losses |->
                             f.wager_amounts[i] * p.house_edge * 2 * RateSum(p.bonuses)]
            IN  /\ \A i \in DOMAIN f.actual_losses :
                      /\ f.actual_losses[i] >= 0
                      /\ f.actual_losses[i] = floored[i]
                      /\ f.loseback_bonus[i] * RateDen = floored[i] * p.loseback
                      /\ f.total_bonus[i] * RateDen =
                             fixed[i] * RateDen + floored[i] * p.loseback
                      /\ f.actual_profit[i] = floored[i] - f.total_bonus[i]
                /\ r.TotalActualLoss = SumSeq(floored)
                /\ r.TotalActualLoss >= 0
                /\ r.TotalActualProfit = SumSeq(floored) - r.TotalBonusesPaid
                /\ (~ r.ActualRTP.nan =>
                       r.ActualRTP.den - r.ActualRTP.num =
                           SumSeq(floored) - r.TotalBonusesPaid)

C7_Witness ==
    \E t \in Threads :
        /\ Returned(t)
        /\ params[t].loseback > 0
        /\ \E i \in DOMAIN frame[t].raw_losses :
              /\ frame[t].raw_losses[i] < 0
              /\ frame[t].actual_losses[i] = 0
        /\ \E i \in DOMAIN frame[t].raw_losses : frame[t].raw_losses[i] > 0

C9_LosebackAsymmetry ==
    \A t \in Threads :
        Returned(t) =>
            LET p == params[t]
                r == outcome[t].results
                fixed == r.TotalWager * p.house_edge * 2 * RateSum(p.bonuses)
            IN  /\ r.TotalActualProfit = r.TotalActualLoss - r.TotalBonusesPaid
                /\ r.TotalBonusesPaid * RateDen =
                       fixed * RateDen + r.TotalActualLoss * p.loseback
                /\ r.TotalExpectedProfit = r.TotalExpectedLoss - fixed
                /\ (saved.kind = "DataFrame"
                        /\ saved.params = [p EXCEPT !.loseback = saved.params.loseback]) =>
                            saved.results.TotalExpectedProfit = r.TotalExpectedProfit

C9_Witness ==
    \E t \in Threads :
        /\ Returned(t)
        /\ saved.kind = "DataFrame"
        /\ params[t].num_players >= 1
        /\ params[t].bonuses = DefaultBonuses
        /\ saved.params = [params[t] EXCEPT !.loseback = saved.params.loseback]
        /\ saved.params.loseback # params[t].loseback
        /\ saved.results.TotalBonusesPaid # outcome[t].results.TotalBonusesPaid
        /\ saved.results.TotalExpectedProfit = outcome[t].results.TotalExpectedProfit

\* C10: ProfitablePlayers counts the players whose actual_profit is strictly
\* below zero and LosingPlayers all the others, those at exactly zero too;
\* so with every bonus rate 0 and loseback in [0, 1] a record returned for
\* player_count >= 1 has ProfitablePlayers = 0 and LosingPlayers = TotalPlayers.
C10_StrictlyBelowZero ==
    \A t \in Threads :
        Returned(t) =>
            LET f == frame[t]
                p == params[t]
                r == outcome[t].results
            IN  /\ r.ProfitablePlayers =
                       Cardinality({i \in DOMAIN f.actual_profit : f.actual_profit[i] < 0})
                /\ r.LosingPlayers =
                       Cardinality({i \in DOMAIN f.actual_profit : f.actual_profit[i] >= 0})
                /\ (p.num_players >= 1 /\ AllRatesZero(p)
                        /\ p.loseback >= 0 /\ p.loseback <= RateDen) =>
                            /\ r.ProfitablePlayers = 0
                            /\ r.LosingPlayers = r.TotalPlayers

C10_Witness ==
    \E t \in Threads :
        /\ Returned(t)
        /\ params[t].num_players >= 1
        /\ AllRatesZero(params[t])
        /\ params[t].loseback = RateDen
        /\ \E i \in DOMAIN frame[t].actual_profit :
              /\ frame[t].actual_losses[i] > 0
              /\ frame[t].actual_profit[i] = 0
        /\ outcome[t].results.LosingPlayers = params[t].num_players

====
